---- MODULE Spec2Model ----
\* Model of Whisper-backend/server.py: module start-up (model load, warm-up),
\* the /transcribe and /analyze_text handlers, and the single event loop that
\* runs them.
EXTENDS Integers, Sequences, FiniteSets, TLC

\* ---------------------------------------------------------------- bounds
MaxReq == 2
MaxSegs == 2

Requests == 1..MaxReq

\* Texts a decoded segment can carry (sequences of characters).
SegTexts == {<<"a">>, <<" ", "b">>}

RECURSIVE SeqsUpTo(_)
SeqsUpTo(n) ==
    IF n = 0 THEN {<<>>}
    ELSE LET shorter == SeqsUpTo(n - 1)
         IN  shorter \cup {Append(s, t) : s \in {x \in shorter : Len(x) = n - 1}, t \in SegTexts}

\* What the engine's generator can yield for one file.
SegmentLists == SeqsUpTo(MaxSegs)

\* str(e) of an exception raised by the model client.
Messages == {"connection refused", ""}

\* message.content of a chat reply.
Contents == {"Nothing interesting", " A cat sat. "}

\* What ollama.chat can return: a reply with message.content, or a mapping
\* that has no "message" key.
Replies == {[message |-> [role |-> "assistant", content |-> c]] : c \in Contents}
           \cup {[done |-> TRUE]}

\* A request as the gateway receives it: the body either validates against the
\* handler's signature (UploadFile / AnalyzeRequest) or does not.
Inputs == {[valid |-> TRUE, data |-> "payload"], [valid |-> FALSE, data |-> ""]}

Kinds == {"transcribe", "analyze"}

\* ---------------------------------------------------------------- state
VARIABLES
    pc,     \* position of the module-level code: load, warm_*, serving, dead
    model,  \* the module global `model`
    disk,   \* names of the temporary files that exist
    warm,   \* outcome of the warm-up block: none, ok, or the step that raised
    req,    \* per request: kind, position in its handler, input, replies, response
    loop    \* the request whose coroutine occupies the event loop, 0 when idle

vars == <<pc, model, disk, warm, req, loop>>

\* tmp_warm.name and tmp.name: NamedTemporaryFile picks a name not in use.
WarmName == 0
TmpName(r) == r

WarmPcs == {"warm_create", "warm_write", "warm_engine", "warm_unlink"}

NoExt == [tag |-> "none"]
NoResp == [status |-> 0, body |-> [none |-> TRUE]]
NoReq == [kind |-> "none", st |-> "none", input |-> [valid |-> FALSE, data |-> ""],
          ext |-> NoExt, resp |-> NoResp, calls |-> 0]

Init ==
    /\ pc = "load"
    /\ model = "unset"
    /\ disk = {}
    /\ warm = "none"
    /\ req = [r \in Requests |-> NoReq]
    /\ loop = 0

\* ---------------------------------------------------------------- start-up
\* model = WhisperModel(...) returns.
LoadModel ==
    /\ pc = "load"
    /\ model' = "loaded"
    /\ pc' = "warm_create"
    /\ UNCHANGED <<disk, warm, req, loop>>

\* Variant: the load is wrapped in a try that swallows the exception.
LoadModelRaisesSwallowed ==
    /\ pc = "load"
    /\ pc' = "warm_create"
    /\ UNCHANGED <<model, disk, warm, req, loop>>

\* WhisperModel(...) raises at import: nothing catches it, the process ends.
LoadModelRaises ==
    /\ pc = "load"
    /\ pc' = "dead"
    /\ UNCHANGED <<model, disk, warm, req, loop>>

\* tmp_warm = tempfile.NamedTemporaryFile(delete=False, suffix=".wav")
WarmCreate ==
    /\ pc = "warm_create"
    /\ disk' = disk \cup {WarmName}
    /\ pc' = "warm_write"
    /\ UNCHANGED <<model, warm, req, loop>>

\* with wave.open(tmp_warm.name, "w") as wf: ... writeframesraw(silence)
WarmWrite ==
    /\ pc = "warm_write"
    /\ pc' = "warm_engine"
    /\ UNCHANGED <<model, disk, warm, req, loop>>

\* _ = list(model.transcribe(tmp_warm.name, without_timestamps=True))
WarmEngine ==
    /\ pc = "warm_engine"
    /\ pc' = "warm_unlink"
    /\ UNCHANGED <<model, disk, warm, req, loop>>

\* os.unlink(tmp_warm.name), then the end of the try block.
WarmUnlink ==
    /\ pc = "warm_unlink"
    /\ disk' = disk \ {WarmName}
    /\ warm' = "ok"
    /\ pc' = "serving"
    /\ UNCHANGED <<model, req, loop>>

\* Variant: the warm-up has no except clause.
WarmExceptPropagates ==
    pc' = "dead"

\* except Exception: pass -- control continues after the block.
WarmExcept ==
    pc' = "serving"

\* The statement at pc raises: the rest of the try block is skipped.
WarmRaises ==
    /\ pc \in WarmPcs
    /\ warm' = pc
    /\ WarmExcept
    /\ UNCHANGED <<model, disk, req, loop>>

\* ---------------------------------------------------------------- gateway
Ok200(payload) == [status |-> 200, body |-> payload]

\* The framework's answer to an exception that leaves a handler.
ServerError == [status |-> 500, body |-> [text |-> "Internal Server Error"]]

\* The framework's answer to a body that does not validate.
Unprocessable == [status |-> 422, body |-> [detail |-> "validation"]]

\* Variant: handlers are started without waiting for the loop (thread pool).
LoopFreeAlways ==
    TRUE

\* Both handlers are `async def` and contain no await: a coroutine starts only
\* when the loop is idle and keeps the loop until it returns or raises.
LoopFree ==
    loop = 0

Running(r) == loop = r

\* The request with the next unused id reaches the listening socket.
Arrive(r, k, i) ==
    /\ pc = "serving"
    /\ req[r].st = "none"
    /\ \A q \in Requests : q < r => req[q].st # "none"
    /\ req' = [req EXCEPT ![r] = [NoReq EXCEPT !.kind = k, !.st = "pending", !.input = i]]
    /\ UNCHANGED <<pc, model, disk, warm, loop>>

\* The body does not validate: the handler is never called.
Reject(r) ==
    /\ req[r].st = "pending"
    /\ ~req[r].input.valid
    /\ LoopFree
    /\ req' = [req EXCEPT ![r].st = "done", ![r].ext = [tag |-> "invalid"],
                          ![r].resp = Unprocessable]
    /\ UNCHANGED <<pc, model, disk, warm, loop>>

\* The handler returns `payload`.
Return(r, payload) ==
    /\ req' = [req EXCEPT ![r].st = "done", ![r].resp = Ok200(payload)]
    /\ loop' = 0

\* An exception leaves the handler; `what` names the call that raised.
Unhandled(r, what) ==
    /\ req' = [req EXCEPT ![r].st = "done", ![r].ext = [tag |-> what],
                          ![r].resp = ServerError]
    /\ loop' = 0

\* ---------------------------------------------------------------- /transcribe
\* Variant: "".join(...)
RECURSIVE JoinNoSeparator(_)
JoinNoSeparator(segs) ==
    IF segs = <<>> THEN <<>> ELSE Head(segs) \o JoinNoSeparator(Tail(segs))

\* " ".join([s.text for s in segments])
RECURSIVE Join(_)
Join(segs) ==
    IF segs = <<>> THEN <<>>
    ELSE IF Len(segs) = 1 THEN Head(segs)
    ELSE Head(segs) \o <<" ">> \o Join(Tail(segs))

\* transcribe_audio is entered; tempfile.NamedTemporaryFile is being called.
TranscribeBegin(r) ==
    /\ req[r].st = "pending"
    /\ req[r].kind = "transcribe"
    /\ req[r].input.valid
    /\ LoopFree
    /\ loop' = r
    /\ req' = [req EXCEPT ![r].st = "tmp"]
    /\ UNCHANGED <<pc, model, disk, warm>>

\* tmp = tempfile.NamedTemporaryFile(delete=False, suffix=".wav")
TranscribeTmp(r) ==
    /\ req[r].st = "tmp"
    /\ Running(r)
    /\ disk' = disk \cup {TmpName(r)}
    /\ req' = [req EXCEPT ![r].st = "copy"]
    /\ UNCHANGED <<pc, model, warm, loop>>

\* NamedTemporaryFile raises (no file was created).
TranscribeTmpRaises(r) ==
    /\ req[r].st = "tmp"
    /\ Running(r)
    /\ Unhandled(r, "create_raise")
    /\ UNCHANGED <<pc, model, disk, warm>>

\* with tmp as f: shutil.copyfileobj(file.file, f); then model.transcribe is called.
TranscribeCopy(r) ==
    /\ req[r].st = "copy"
    /\ Running(r)
    /\ req' = [req EXCEPT ![r].st = "engine"]
    /\ UNCHANGED <<pc, model, disk, warm, loop>>

\* copyfileobj raises: the with block closes the file, which stays on disk.
TranscribeCopyRaises(r) ==
    /\ req[r].st = "copy"
    /\ Running(r)
    /\ Unhandled(r, "copy_raise")
    /\ UNCHANGED <<pc, model, disk, warm>>

\* Variant: the handler rebinds the global model.
TranscribeEngineReturnsReloading(r, segs) ==
    /\ req[r].st = "engine"
    /\ Running(r)
    /\ req' = [req EXCEPT ![r].st = "join", ![r].calls = @ + 1,
                          ![r].ext = [tag |-> "segments", segs |-> segs]]
    /\ model' = "reloaded"
    /\ UNCHANGED <<pc, disk, warm, loop>>

\* segments, _ = model.transcribe(tmp.name, ...) returns a lazy segment generator.
TranscribeEngineReturns(r, segs) ==
    /\ req[r].st = "engine"
    /\ Running(r)
    /\ req' = [req EXCEPT ![r].st = "join", ![r].calls = @ + 1,
                          ![r].ext = [tag |-> "segments", segs |-> segs]]
    /\ UNCHANGED <<pc, model, disk, warm, loop>>

\* Variant: the engine's exception is caught and an empty text returned.
TranscribeEngineRaisesSwallowed(r) ==
    /\ req[r].st = "engine"
    /\ Running(r)
    /\ req' = [req EXCEPT ![r].st = "done", ![r].calls = @ + 1,
                          ![r].ext = [tag |-> "engine_raise"],
                          ![r].resp = Ok200([transcription |-> <<>>])]
    /\ loop' = 0
    /\ UNCHANGED <<pc, model, disk, warm>>

\* model.transcribe raises.
TranscribeEngineRaises(r) ==
    /\ req[r].st = "engine"
    /\ Running(r)
    /\ req' = [req EXCEPT ![r].st = "done", ![r].calls = @ + 1,
                          ![r].ext = [tag |-> "engine_raise"],
                          ![r].resp = ServerError]
    /\ loop' = 0
    /\ UNCHANGED <<pc, model, disk, warm>>

\* text = " ".join([s.text for s in segments]); return {"transcription": text}
TranscribeJoin(r) ==
    /\ req[r].st = "join"
    /\ Running(r)
    /\ Return(r, [transcription |-> Join(req[r].ext.segs)])
    /\ UNCHANGED <<pc, model, disk, warm>>

\* The generator raises while the list comprehension consumes it.
TranscribeJoinRaises(r) ==
    /\ req[r].st = "join"
    /\ Running(r)
    /\ Unhandled(r, "segments_raise")
    /\ UNCHANGED <<pc, model, disk, warm>>

\* ---------------------------------------------------------------- /analyze_text
\* {"error": f"Ollama failed: {e}"}
AnalyzeError(m) ==
    [error |-> "Ollama failed: " \o m]

\* Variant: the success payload also carries an empty error field.
AnalyzeResultWithBoth(reply) ==
    IF "message" \in DOMAIN reply
    THEN [interesting_part |-> reply.message.content, error |-> ""]
    ELSE AnalyzeError("'message'")

\* return {"interesting_part": response["message"]["content"]} inside the try:
\* a reply without the key raises KeyError('message'), which the except catches.
AnalyzeResult(reply) ==
    IF "message" \in DOMAIN reply
    THEN [interesting_part |-> reply.message.content]
    ELSE AnalyzeError("'message'")

\* analyze_text is entered, the prompt is built and ollama.chat is being called.
\* The prompt embeds request.text; the handler reads nothing back from it.
AnalyzeBegin(r) ==
    /\ req[r].st = "pending"
    /\ req[r].kind = "analyze"
    /\ req[r].input.valid
    /\ LoopFree
    /\ loop' = r
    /\ req' = [req EXCEPT ![r].st = "chat", ![r].calls = @ + 1]
    /\ UNCHANGED <<pc, model, disk, warm>>

\* ollama.chat returns `reply`.
AnalyzeChatReturns(r, reply) ==
    /\ req[r].st = "chat"
    /\ Running(r)
    /\ req' = [req EXCEPT ![r].st = "done", ![r].ext = [tag |-> "reply", reply |-> reply],
                          ![r].resp = Ok200(AnalyzeResult(reply))]
    /\ loop' = 0
    /\ UNCHANGED <<pc, model, disk, warm>>

\* Variant: the chat call is outside the try block.
AnalyzeChatRaisesUncaught(r, m) ==
    /\ req[r].st = "chat"
    /\ Running(r)
    /\ req' = [req EXCEPT ![r].st = "done", ![r].ext = [tag |-> "chat_raise", msg |-> m],
                          ![r].resp = ServerError]
    /\ loop' = 0
    /\ UNCHANGED <<pc, model, disk, warm>>

\* ollama.chat raises an Exception whose str() is m: except Exception as e.
AnalyzeChatRaises(r, m) ==
    /\ req[r].st = "chat"
    /\ Running(r)
    /\ req' = [req EXCEPT ![r].st = "done", ![r].ext = [tag |-> "chat_raise", msg |-> m],
                          ![r].resp = Ok200(AnalyzeError(m))]
    /\ loop' = 0
    /\ UNCHANGED <<pc, model, disk, warm>>

\* ---------------------------------------------------------------- specification
Next ==
    \/ LoadModel
    \/ LoadModelRaises
    \/ WarmCreate
    \/ WarmWrite
    \/ WarmEngine
    \/ WarmUnlink
    \/ WarmRaises
    \/ \E r \in Requests, k \in Kinds, i \in Inputs : Arrive(r, k, i)
    \/ \E r \in Requests : Reject(r)
    \/ \E r \in Requests : TranscribeBegin(r)
    \/ \E r \in Requests : TranscribeTmp(r)
    \/ \E r \in Requests : TranscribeTmpRaises(r)
    \/ \E r \in Requests : TranscribeCopy(r)
    \/ \E r \in Requests : TranscribeCopyRaises(r)
    \/ \E r \in Requests, segs \in SegmentLists : TranscribeEngineReturns(r, segs)
    \/ \E r \in Requests : TranscribeEngineRaises(r)
    \/ \E r \in Requests : TranscribeJoin(r)
    \/ \E r \in Requests : TranscribeJoinRaises(r)
    \/ \E r \in Requests : AnalyzeBegin(r)
    \/ \E r \in Requests, reply \in Replies : AnalyzeChatReturns(r, reply)
    \/ \E r \in Requests, m \in Messages : AnalyzeChatRaises(r, m)

Spec == Init /\ [][Next]_vars

\* Every call returns or raises, and the loop runs whatever is ready.
FairSpec == Spec /\ WF_vars(Next)

TypeOK ==
    /\ pc \in {"load", "dead", "serving"} \cup WarmPcs
    /\ model \in {"unset", "loaded"}
    /\ disk \subseteq ({WarmName} \cup {TmpName(r) : r \in Requests})
    /\ warm \in {"none", "ok"} \cup WarmPcs
    /\ loop \in {0} \cup Requests
    /\ \A r \in Requests :
         /\ req[r].kind \in Kinds \cup {"none"}
         /\ req[r].st \in {"none", "pending", "tmp", "copy", "engine", "join", "chat", "done"}
         /\ req[r].calls \in 0..1

\* ---------------------------------------------------------------- properties
Done(r) == req[r].st = "done"

InHandler(r) == req[r].st \in {"tmp", "copy", "engine", "join", "chat"}

\* C1: when the model client raises with message m on a validated /analyze_text
\* request, the request completes with HTTP 200 and the payload is exactly
\* {"error": "Ollama failed: " + m}.
C1_ChatExceptionReported ==
    \A r \in Requests :
        (Done(r) /\ req[r].kind = "analyze" /\ req[r].input.valid
                 /\ req[r].ext.tag = "chat_raise")
        => req[r].resp = [status |-> 200,
                          body |-> [error |-> "Ollama failed: " \o req[r].ext.msg]]

C1_Witness ==
    \E r \in Requests :
        /\ Done(r)
        /\ req[r].ext.tag = "chat_raise"
        /\ req[r].ext.msg = "connection refused"

\* C2: once a /transcribe request has finished, the temporary file it created
\* no longer exists.
C2_TmpFileGone ==
    \A r \in Requests :
        (Done(r) /\ req[r].kind = "transcribe") => TmpName(r) \notin disk

\* Start of segment i in the joined text, counted from 0.
RECURSIVE Offset(_, _)
Offset(segs, i) ==
    IF i = 1 THEN 0 ELSE Offset(segs, i - 1) + Len(segs[i - 1]) + 1

\* t holds every segment at its place, one space after each but the last,
\* and nothing else.
SpaceJoined(t, segs) ==
    /\ Len(t) = IF segs = <<>> THEN 0 ELSE Offset(segs, Len(segs) + 1) - 1
    /\ \A i \in 1..Len(segs) :
         /\ SubSeq(t, Offset(segs, i) + 1, Offset(segs, i) + Len(segs[i])) = segs[i]
         /\ i < Len(segs) => t[Offset(segs, i) + Len(segs[i]) + 1] = " "

\* C3: when the engine yields segments s1..sn, the response is 200 with the
\* single field transcription, holding the segments' texts in order with
\* exactly one space between consecutive ones; the empty string for n = 0.
C3_TranscriptionIsSpaceJoined ==
    \A r \in Requests :
        (Done(r) /\ req[r].kind = "transcribe" /\ req[r].ext.tag = "segments")
        => /\ req[r].resp.status = 200
           /\ DOMAIN req[r].resp.body = {"transcription"}
           /\ SpaceJoined(req[r].resp.body.transcription, req[r].ext.segs)
           /\ req[r].ext.segs = <<>> => req[r].resp.body.transcription = <<>>

C3_Witness ==
    \E r, q \in Requests :
        /\ Done(r) /\ req[r].ext.tag = "segments" /\ Len(req[r].ext.segs) = 2
        /\ Done(q) /\ req[q].ext.tag = "segments" /\ req[q].ext.segs = <<>>

\* C4: when the engine raises, at the transcribe call or while its segments
\* are consumed, the request ends with HTTP 500 and no transcription field,
\* and the engine was invoked exactly once.
C4_EngineFailureIs500 ==
    \A r \in Requests :
        (Done(r) /\ req[r].ext.tag \in {"engine_raise", "segments_raise"})
        => /\ req[r].resp.status = 500
           /\ "transcription" \notin DOMAIN req[r].resp.body
           /\ req[r].calls = 1

C4_Witness ==
    \E r, q \in Requests :
        /\ Done(r) /\ req[r].ext.tag = "engine_raise"
        /\ Done(q) /\ req[q].ext.tag = "segments_raise"

\* C5: when the model client returns a reply with message content c, the
\* response is 200 with payload exactly {"interesting_part": c}; every
\* completed validated /analyze_text request carries exactly one of the
\* fields interesting_part and error.
C5_ReplyPassedThrough ==
    \A r \in Requests :
        (Done(r) /\ req[r].kind = "analyze" /\ req[r].input.valid)
        => /\ req[r].resp.status = 200
           /\ Cardinality(DOMAIN req[r].resp.body \cap {"interesting_part", "error"}) = 1
           /\ (req[r].ext.tag = "reply" /\ "message" \in DOMAIN req[r].ext.reply)
              => req[r].resp.body =
                    [interesting_part |-> req[r].ext.reply.message.content]

C5_Witness ==
    \E r \in Requests :
        /\ Done(r)
        /\ req[r].ext.tag = "reply"
        /\ "message" \in DOMAIN req[r].ext.reply
        /\ req[r].ext.reply.message.content = " A cat sat. "

\* C6: once the model has loaded, a warm-up step that raises is swallowed: the
\* process goes on to the serving state, and there every pending request is
\* taken up by the idle loop whatever the warm-up outcome was.
C6_WarmupNeverFatal ==
    /\ (pc \in WarmPcs) ~> (pc = "serving")
    /\ [][(pc \in WarmPcs) => (pc' \in WarmPcs \cup {"serving"})]_vars
    /\ [](\A r \in Requests :
            (pc = "serving" /\ req[r].st = "pending" /\ LoopFree)
            => ENABLED (Reject(r) \/ TranscribeBegin(r) \/ AnalyzeBegin(r)))

C6_Witness ==
    /\ pc = "serving"
    /\ warm = "warm_engine"
    /\ \E r \in Requests : Done(r) /\ req[r].resp.status = 200

\* C7: a model load that raises is the only fatal event: the process gets past
\* loading only with a loaded model, a dead process has handled no request
\* and stays dead, death comes only from the load, and a serving process
\* stays serving through every later failure.
C7_OnlyLoadIsFatal ==
    /\ [](pc \in WarmPcs \cup {"serving"} => model = "loaded")
    /\ [](pc = "dead" => \A r \in Requests : req[r].st = "none")
    /\ [][pc = "dead" => pc' = "dead"]_vars
    /\ [][pc' = "dead" => (pc \in {"load", "dead"})]_vars
    /\ [][pc = "serving" => pc' = "serving"]_vars

C7_Witness ==
    /\ pc = "dead"
    /\ model = "unset"

\* Two finished requests with the same endpoint, input and collaborator
\* replies carry the same response.
SameAnswer ==
    \A r, q \in Requests :
        (Done(r) /\ Done(q) /\ req[r].kind = req[q].kind
                 /\ req[r].input = req[q].input /\ req[r].ext = req[q].ext)
        => req[r].resp = req[q].resp

\* C8: the model handle is assigned once, at start-up; no handler step writes
\* it or any other process-wide variable, and a response depends only on the
\* request's input and the collaborators' replies.
C8_HandleImmutable ==
    /\ [][model' # model => (pc = "load" /\ model = "unset")]_vars
    /\ [][pc = "serving" => (model' = model /\ pc' = pc /\ warm' = warm)]_vars
    /\ []SameAnswer

C8_Witness ==
    /\ model = "loaded"
    /\ \E r, q \in Requests :
        /\ r # q
        /\ Done(r) /\ Done(q)
        /\ req[r].kind = "transcribe" /\ req[q].kind = "transcribe"
        /\ req[r].ext.tag = "segments" /\ req[r].ext = req[q].ext

\* C9: when the warm-up has finished and the service accepts requests, the
\* warm-up's scratch file no longer exists.
C9_ScratchFileGone ==
    pc = "serving" => WarmName \notin disk

\* C10: while one request's handler is between its entry and its return, no
\* other request's handler takes a step: another request can only arrive.
C10_HandlersSerialized ==
    [][\A r, q \in Requests :
          (r # q /\ InHandler(r) /\ req'[q] # req[q]) => req[q].st = "none"]_vars

C10_Witness ==
    \E r, q \in Requests :
        /\ req[r].st = "engine"
        /\ req[q].st = "pending"
        /\ req[q].input.valid
====
